---- MODULE Spec2Model ----
(***************************************************************************)
(* A model of src/src/main.rs: a Mandelbrot set renderer for the terminal  *)
(* with keyboard pan and mouse zoom.                                       *)
(*                                                                         *)
(* The program computes in f64.  The model interprets every f64 operation  *)
(* in one of two arithmetics, chosen by the variable arith:                *)
(*   "ieee"   IEEE-754 binary floating point, round to nearest even, with  *)
(*            subnormals, signed zeros, infinities and NaN, in a format    *)
(*            of Precision significand bits and exponents 1-EMax..EMax     *)
(*            (binary64 is the format with 53 bits and EMax 1023);         *)
(*   "exact"  the rationals, without rounding.                             *)
(* The program text is modelled once and reads the arithmetic through Add, *)
(* Sub, Mul, Div, AsF64, Lit and Gt.                                       *)
(***************************************************************************)
EXTENDS Integers, Sequences, FiniteSets, TLC

VARIABLES
    arith,               \* how f64 arithmetic is interpreted: "ieee" or "exact"
    tty,                 \* environment: the terminal's <<columns, rows>>, or NoTty
    pending,             \* environment: input events still to come on stdin
    pc,                  \* position of the process
    panic,               \* the unwrap() that aborted the process, or "none"
    raw_mode,            \* whether the terminal is in raw mode
    term_width,          \* main: term_width
    term_height,         \* main: term_height
    bounds,              \* the viewport <<<<x_min, width>>, <<y_min, height>>>>
    evt,                 \* handle_mouse_events: the event read last
    frame,               \* the arguments of the frame on the screen
    renders,             \* calls of draw_mandelbrot so far
    zoom_args,           \* arguments of the latest call of scale_bounds
    c,                   \* check_convergence: c
    z,                   \* check_convergence: z
    i,                   \* check_convergence: i
    ret,                 \* check_convergence: the value returned
    buffer,              \* draw_mandelbrot: buffer
    convergence_result   \* draw_mandelbrot: convergence_result

envVars == <<tty, pending>>
loopVars == <<pc, panic, raw_mode, term_width, term_height, bounds, evt, frame, renders>>
convVars == <<c, z, i, ret>>
pixelVars == <<buffer, convergence_result>>
vars == <<arith, envVars, loopVars, zoom_args, convVars, pixelVars>>

(***************************************************************************)
(* Bounds of the model.                                                    *)
(***************************************************************************)
Precision == 11        \* significand bits of the "ieee" format
EMax == 3              \* largest exponent of the "ieee" format
MaxTermWidth == 2      \* terminal_size() yields 1..MaxTermWidth columns
MaxTermHeight == 2     \* and 1..MaxTermHeight rows
MaxEvents == 2         \* length of the input in SpecLoop
MaxClicks == 15        \* length of the input in SpecClicks
MaxZooms == 1          \* calls of scale_bounds in SpecZoom
MaxCoord == 2          \* viewport coordinates and points c range over -MaxCoord..MaxCoord
MaxBuffer == 1         \* cells pushed in SpecPixel

(***************************************************************************)
(* IEEE-754 arithmetic.  A float is NaN, an infinity FInf(s), or the       *)
(* finite number (-1)^s * m * 2^e with m < 2^Precision and e >= QMin,      *)
(* where m >= 2^(Precision-1) unless e = QMin (subnormal, zero).           *)
(***************************************************************************)
QMin == (1 - EMax) - Precision + 1
QMax == EMax - Precision + 1

Pow2 == [n \in 0..30 |-> 2^n]
BitLen(m) == CHOOSE k \in 0..30 : m < Pow2[k] /\ (k = 0 \/ Pow2[k - 1] <= m)
Max(a, b) == IF a >= b THEN a ELSE b
Abs(n) == IF n < 0 THEN -n ELSE n

NaN == [cls |-> "nan", s |-> 0, m |-> 0, e |-> 0]
FInf(s) == [cls |-> "inf", s |-> s, m |-> 0, e |-> 0]
FZero(s) == [cls |-> "fin", s |-> s, m |-> 0, e |-> QMin]
FPack(s, m, e) ==
    IF m = 0 THEN FZero(s)
    ELSE IF e > QMax THEN FInf(s)
    ELSE [cls |-> "fin", s |-> s, m |-> m, e |-> e]

FRound(s, M, E) ==
    IF M = 0 THEN FZero(s)
    ELSE LET q == Max(E + BitLen(M) - Precision, QMin)
         IN  IF q <= E THEN FPack(s, M * Pow2[E - q], q)
             ELSE LET k == q - E
                  IN  IF k > BitLen(M) + 1 THEN FZero(s)
                      ELSE LET m0 == M \div Pow2[k]
                               rem == M % Pow2[k]
                               half == Pow2[k - 1]
                               up == rem > half \/ (rem = half /\ m0 % 2 = 1)
                               m1 == IF up THEN m0 + 1 ELSE m0
                           IN  IF m1 = Pow2[Precision]
                               THEN FPack(s, Pow2[Precision - 1], q + 1)
                               ELSE FPack(s, m1, q)

FIsZero(a) == a.cls = "fin" /\ a.m = 0

FMul(a, b) ==
    IF a.cls = "nan" \/ b.cls = "nan" THEN NaN
    ELSE LET s == (a.s + b.s) % 2
         IN  IF a.cls = "inf" \/ b.cls = "inf"
             THEN IF FIsZero(a) \/ FIsZero(b) THEN NaN ELSE FInf(s)
             ELSE FRound(s, a.m * b.m, a.e + b.e)

FNeg(a) == IF a.cls = "nan" THEN a ELSE [a EXCEPT !.s = 1 - a.s]

FAddFin(hi, lo) ==
    LET d == hi.e - lo.e
        near == d <= Precision + 2
        H == IF near THEN hi.m * Pow2[d] ELSE hi.m * 8
        L == IF near THEN lo.m ELSE 1
        E == IF near THEN lo.e ELSE hi.e - 3
    IN  IF hi.s = lo.s THEN FRound(hi.s, H + L, E)
        ELSE IF H = L THEN FZero(0)
        ELSE IF H > L THEN FRound(hi.s, H - L, E)
        ELSE FRound(lo.s, L - H, E)

FAdd(a, b) ==
    IF a.cls = "nan" \/ b.cls = "nan" THEN NaN
    ELSE IF a.cls = "inf" THEN (IF b.cls = "inf" /\ b.s # a.s THEN NaN ELSE a)
    ELSE IF b.cls = "inf" THEN b
    ELSE IF a.m = 0 /\ b.m = 0 THEN FZero(IF a.s = 1 /\ b.s = 1 THEN 1 ELSE 0)
    ELSE IF a.m = 0 THEN b
    ELSE IF b.m = 0 THEN a
    ELSE IF a.e >= b.e THEN FAddFin(a, b) ELSE FAddFin(b, a)

FSub(a, b) == FAdd(a, FNeg(b))

FDiv(a, b) ==
    IF a.cls = "nan" \/ b.cls = "nan" THEN NaN
    ELSE LET s == (a.s + b.s) % 2
         IN  IF a.cls = "inf" THEN (IF b.cls = "inf" THEN NaN ELSE FInf(s))
             ELSE IF b.cls = "inf" THEN FZero(s)
             ELSE IF b.m = 0 THEN (IF a.m = 0 THEN NaN ELSE FInf(s))
             ELSE IF a.m = 0 THEN FZero(s)
             ELSE LET sa == Precision - BitLen(a.m)
                      sb == Precision - BitLen(b.m)
                      N == a.m * Pow2[sa] * Pow2[Precision + 2]
                      D == b.m * Pow2[sb]
                      Q == N \div D
                      sticky == IF N % D = 0 THEN 0 ELSE 1
                  IN  FRound(s, 2 * Q + sticky, (a.e - sa) - (b.e - sb) - Precision - 3)

FFromInt(n) == FRound(IF n < 0 THEN 1 ELSE 0, IF n < 0 THEN -n ELSE n, 0)

FGt(a, b) ==
    IF a.cls = "nan" \/ b.cls = "nan" THEN FALSE
    ELSE IF FIsZero(a) /\ FIsZero(b) THEN FALSE
    ELSE IF a.s # b.s THEN a.s = 0
    ELSE LET pos == a.s = 0
             magGt(x, y) ==
                 IF x.cls = "inf" THEN y.cls # "inf"
                 ELSE IF y.cls = "inf" THEN FALSE
                 ELSE IF x.e >= y.e
                      THEN (x.e - y.e > Precision \/ x.m * Pow2[x.e - y.e] > y.m)
                      ELSE ~(y.e - x.e > Precision \/ y.m * Pow2[y.e - x.e] >= x.m)
         IN  IF pos THEN magGt(a, b) ELSE magGt(b, a)

(***************************************************************************)
(* Exact arithmetic: the rational n/d in lowest terms, d > 0.              *)
(***************************************************************************)
RECURSIVE GCD(_, _)
GCD(a, b) == IF b = 0 THEN a ELSE GCD(b, a % b)

QNorm(n, d) ==
    LET g == GCD(Abs(n), Abs(d))
        sgn == IF d < 0 THEN -1 ELSE 1
    IN  [cls |-> "rat", n |-> (sgn * n) \div g, d |-> (sgn * d) \div g]

QAdd(a, b) == QNorm(a.n * b.d + b.n * a.d, a.d * b.d)
QSub(a, b) == QNorm(a.n * b.d - b.n * a.d, a.d * b.d)
QMul(a, b) == QNorm(a.n * b.n, a.d * b.d)
QDiv(a, b) == QNorm(a.n * b.d, a.d * b.n)
QGt(a, b) == a.n * b.d > b.n * a.d

(***************************************************************************)
(* The f64 operations of the program, in the arithmetic of the             *)
(* specification.                                                          *)
(***************************************************************************)
Add(a, b) == IF arith = "exact" THEN QAdd(a, b) ELSE FAdd(a, b)
Sub(a, b) == IF arith = "exact" THEN QSub(a, b) ELSE FSub(a, b)
Mul(a, b) == IF arith = "exact" THEN QMul(a, b) ELSE FMul(a, b)
Div(a, b) == IF arith = "exact" THEN QDiv(a, b) ELSE FDiv(a, b)
Gt(a, b) == IF arith = "exact" THEN QGt(a, b) ELSE FGt(a, b)
\* `n as f64`
AsF64(n) == IF arith = "exact" THEN QNorm(n, 1) ELSE FFromInt(n)
\* the decimal literal n/d: the nearest float, or the rational itself
Lit(n, d) == IF arith = "exact" THEN QNorm(n, d) ELSE FDiv(FFromInt(n), FFromInt(d))

(***************************************************************************)
(* struct C and its operations (main.rs:13-64).                            *)
(***************************************************************************)
norm(self) == Add(Mul(self.im, self.im), Mul(self.re, self.re))

from(value) == [re |-> value[1], im |-> value[2]]

mul(self, rhs) ==
    [re |-> Sub(Mul(self.re, rhs.re), Mul(self.im, rhs.im)),
     im |-> Add(Mul(self.re, rhs.im), Mul(self.im, rhs.re))]

add(self, rhs) ==
    [re |-> Add(self.re, rhs.re),
     im |-> Add(self.im, rhs.im)]

(***************************************************************************)
(* The viewport functions (main.rs:66-80, 142-161).  A viewport is         *)
(* <<<<x_min, width>>, <<y_min, height>>>>, as the tuple `bounds` is.      *)
(***************************************************************************)
convert_term_coords(term_x, term_y, t_width, t_height, b) ==
    LET x_min == b[1][1]
        width == b[1][2]
        y_min == b[2][1]
        height == b[2][2]
        x == Add(Mul(Div(AsF64(term_x), AsF64(t_width)), width), x_min)
        y == Add(Mul(Div(AsF64(term_y), AsF64(t_height)), height), y_min)
    IN  <<x, y>>

\* scale_origin with x and x0 exchanged in the products
scale_origin_exchanged(f, x, x0) == Add(Sub(x, Mul(f, x0)), Mul(f, x))

scale_origin(f, x, x0) == Add(Sub(x, Mul(f, x)), Mul(f, x0))

scale_bounds(f, term_x, term_y, t_height, t_width, b) ==
    LET p == convert_term_coords(term_x, term_y, t_width, t_height, b)
        x0_new == scale_origin(f, p[1], b[1][1])
        y0_new == scale_origin(f, p[2], b[2][1])
    IN  <<<<x0_new, Mul(f, b[1][2])>>, <<y0_new, Mul(f, b[2][2])>>>>

(***************************************************************************)
(* Option<u16> and push_pixel (main.rs:111-126).                           *)
(***************************************************************************)
None == [some |-> FALSE, k |-> 0]
Some(k) == [some |-> TRUE, k |-> k]

\* push_pixel with bands that start at the multiples of 100
push_pixel_shifted(result, buf) ==
    LET sym == IF ~result.some THEN "@"
               ELSE IF result.k \in 0..99 THEN " "
               ELSE IF result.k \in 100..199 THEN "."
               ELSE IF result.k \in 200..299 THEN ":"
               ELSE IF result.k \in 300..399 THEN "-"
               ELSE IF result.k \in 400..499 THEN "="
               ELSE IF result.k \in 500..599 THEN "+"
               ELSE IF result.k \in 600..699 THEN "*"
               ELSE IF result.k \in 700..799 THEN "#"
               ELSE "%"
    IN  Append(buf, sym)

push_pixel(result, buf) ==
    LET sym == IF ~result.some THEN "@"
               ELSE IF result.k \in 0..100 THEN " "
               ELSE IF result.k \in 101..200 THEN "."
               ELSE IF result.k \in 201..300 THEN ":"
               ELSE IF result.k \in 301..400 THEN "-"
               ELSE IF result.k \in 401..500 THEN "="
               ELSE IF result.k \in 501..600 THEN "+"
               ELSE IF result.k \in 601..700 THEN "*"
               ELSE IF result.k \in 701..800 THEN "#"
               ELSE "%"
    IN  Append(buf, sym)

(***************************************************************************)
(* Values the variables of the other specifications rest at.               *)
(***************************************************************************)
NoTty == <<0, 0>>
NoEvent == [type |-> "None", key |-> "", button |-> "", x |-> 0, y |-> 0]
NoArgs == <<>>
Zero == Lit(0, 1)
InitialBounds == <<<<Lit(-3, 1), Lit(4, 1)>>, <<Lit(-2, 1), Lit(4, 1)>>>>

LoopIdle ==
    /\ tty = NoTty /\ pending = 0 /\ panic = "none" /\ raw_mode = FALSE
    /\ term_width = 0 /\ term_height = 0 /\ evt = NoEvent
    /\ frame = <<>> /\ renders = 0
ZoomIdle == zoom_args = NoArgs
ConvIdle == c = <<>> /\ z = <<>> /\ i = 0 /\ ret = None
PixelIdle == buffer = <<>> /\ convergence_result = None

(***************************************************************************)
(* main and handle_mouse_events (main.rs:163-203).                         *)
(*                                                                         *)
(* pc: "size" before terminal_size(), "draw" before the first              *)
(* draw_mandelbrot, "raw" before into_raw_mode(), "wait" blocked in        *)
(* stdin.events(), "done" after main has returned, "aborted" after a       *)
(* panic.                                                                  *)
(***************************************************************************)
Keys == {"Right", "Left", "Down", "Up", "Other"}
Buttons == {"Left", "Right", "Middle"}

KeyEv(k) == [type |-> "Key", key |-> k, button |-> "", x |-> 0, y |-> 0]
PressEv(button, x, y) == [type |-> "Press", key |-> "", button |-> button, x |-> x, y |-> y]
OtherEvents ==
    {[type |-> t, key |-> "", button |-> "", x |-> 0, y |-> 0] : t \in {"Release", "Unsupported"}}
ReadFailure == [type |-> "Error", key |-> "", button |-> "", x |-> 0, y |-> 0]

\* draw_mandelbrot, main.rs:128-140: the frame printed is a function of the
\* arguments, which stand for it.
draw_mandelbrot(t_width, t_height, b) ==
    /\ frame' = <<t_width, t_height, b>>
    /\ renders' = renders + 1

\* main.rs:197
TerminalSize ==
    /\ pc = "size"
    /\ IF tty = NoTty
       THEN /\ pc' = "aborted"
            /\ panic' = "terminal_size"
            /\ UNCHANGED <<term_width, term_height>>
       ELSE /\ pc' = "draw"
            /\ term_width' = tty[1]
            /\ term_height' = tty[2]
            /\ UNCHANGED panic
    /\ UNCHANGED <<arith, envVars, raw_mode, bounds, evt, frame, renders>>
    /\ UNCHANGED <<zoom_args, convVars, pixelVars>>

\* main without its first draw_mandelbrot
InitialDraw_skipped ==
    /\ pc = "draw"
    /\ pc' = "raw"
    /\ UNCHANGED <<arith, envVars, panic, raw_mode, term_width, term_height, bounds, evt>>
    /\ UNCHANGED <<frame, renders, zoom_args, convVars, pixelVars>>

\* main.rs:200
InitialDraw ==
    /\ pc = "draw"
    /\ draw_mandelbrot(term_width, term_height, bounds)
    /\ pc' = "raw"
    /\ UNCHANGED <<arith, envVars, panic, raw_mode, term_width, term_height, bounds, evt>>
    /\ UNCHANGED <<zoom_args, convVars, pixelVars>>

\* main.rs:165
IntoRawMode ==
    /\ pc = "raw"
    /\ \/ /\ pc' = "wait"
          /\ raw_mode' = TRUE
          /\ UNCHANGED panic
       \/ /\ pc' = "aborted"
          /\ panic' = "into_raw_mode"
          /\ UNCHANGED raw_mode
    /\ UNCHANGED <<arith, envVars, term_width, term_height, bounds, evt, frame, renders>>
    /\ UNCHANGED <<zoom_args, convVars, pixelVars>>

\* main.rs:192: stdout.flush().unwrap(), then the next turn of the loop
Flush ==
    \/ /\ pc' = "wait"
       /\ UNCHANGED <<panic, raw_mode>>
    \/ /\ pc' = "aborted"
       /\ panic' = "flush"
       /\ raw_mode' = FALSE

\* Pan whose Right arm adds to bounds.0 .1 instead of bounds.0 .0
Pan_extent(k, b) ==
    CASE k = "Right" -> <<<<b[1][1], Add(b[1][2], Mul(b[1][2], Lit(1, 10)))>>, b[2]>>
      [] k = "Left" -> <<<<Sub(b[1][1], Mul(b[1][2], Lit(1, 10))), b[1][2]>>, b[2]>>
      [] k = "Down" -> <<b[1], <<Add(b[2][1], Mul(b[2][2], Lit(1, 10))), b[2][2]>>>>
      [] k = "Up" -> <<b[1], <<Sub(b[2][1], Mul(b[2][2], Lit(1, 10))), b[2][2]>>>>
      [] OTHER -> b

\* main.rs:171-177
Pan(k, b) ==
    CASE k = "Right" -> <<<<Add(b[1][1], Mul(b[1][2], Lit(1, 10))), b[1][2]>>, b[2]>>
      [] k = "Left" -> <<<<Sub(b[1][1], Mul(b[1][2], Lit(1, 10))), b[1][2]>>, b[2]>>
      [] k = "Down" -> <<b[1], <<Add(b[2][1], Mul(b[2][2], Lit(1, 10))), b[2][2]>>>>
      [] k = "Up" -> <<b[1], <<Sub(b[2][1], Mul(b[2][2], Lit(1, 10))), b[2][2]>>>>
      [] OTHER -> b

\* ZoomFactor that leaves the viewport as it is for a button other than Left and Right
ZoomFactor_ignoring(button) ==
    IF button = "Left" THEN Lit(1, 2) ELSE IF button = "Right" THEN Lit(3, 2) ELSE Lit(1, 1)

\* main.rs:181-184
ZoomFactor(button) == IF button = "Left" THEN Lit(1, 2) ELSE Lit(3, 2)

\* main.rs:166: the next event is read
Read(e) ==
    /\ pc = "wait"
    /\ pending > 0
    /\ pending' = pending - 1
    /\ evt' = e

\* main.rs:167: c.unwrap() on an item that is a read error
ReadError ==
    /\ pc = "wait"
    /\ pending > 0
    /\ pending' = pending - 1
    /\ evt' = ReadFailure
    /\ pc' = "aborted"
    /\ panic' = "event"
    /\ raw_mode' = FALSE
    /\ UNCHANGED <<arith, tty, term_width, term_height, bounds, frame, renders>>
    /\ UNCHANGED <<zoom_args, convVars, pixelVars>>

\* main.rs:166: the input ends, the loop and main return
EndOfInput ==
    /\ pc = "wait"
    /\ pending = 0
    /\ pc' = "done"
    /\ raw_mode' = FALSE
    /\ UNCHANGED <<arith, envVars, panic, term_width, term_height, bounds, evt, frame, renders>>
    /\ UNCHANGED <<zoom_args, convVars, pixelVars>>

\* main.rs:169
Quit ==
    /\ Read(KeyEv("q"))
    /\ pc' = "done"
    /\ raw_mode' = FALSE
    /\ UNCHANGED <<arith, tty, panic, term_width, term_height, bounds, frame, renders>>
    /\ UNCHANGED <<zoom_args, convVars, pixelVars>>

\* main.rs:170-179, 192
KeyEvent ==
    /\ \E k \in Keys :
          /\ Read(KeyEv(k))
          /\ bounds' = Pan(k, bounds)
    /\ draw_mandelbrot(term_width, term_height, bounds')
    /\ Flush
    /\ UNCHANGED <<arith, tty, term_width, term_height>>
    /\ UNCHANGED <<zoom_args, convVars, pixelVars>>

\* MousePress without its draw_mandelbrot
MousePress_undrawn ==
    /\ \E button \in Buttons, term_x \in 1..term_width, term_y \in 1..term_height :
          /\ Read(PressEv(button, term_x, term_y))
          /\ bounds' = scale_bounds(ZoomFactor(button), term_x, term_y,
                                    term_height, term_width, bounds)
    /\ Flush
    /\ UNCHANGED <<arith, tty, term_width, term_height, frame, renders>>
    /\ UNCHANGED <<zoom_args, convVars, pixelVars>>

\* main.rs:180-189, 192
MousePress ==
    /\ \E button \in Buttons, term_x \in 1..term_width, term_y \in 1..term_height :
          /\ Read(PressEv(button, term_x, term_y))
          /\ bounds' = scale_bounds(ZoomFactor(button), term_x, term_y,
                                    term_height, term_width, bounds)
    /\ draw_mandelbrot(term_width, term_height, bounds')
    /\ Flush
    /\ UNCHANGED <<arith, tty, term_width, term_height>>
    /\ UNCHANGED <<zoom_args, convVars, pixelVars>>

\* OtherEvent that redraws, as the key arm does
OtherEvent_drawn ==
    /\ \E e \in OtherEvents : Read(e)
    /\ draw_mandelbrot(term_width, term_height, bounds)
    /\ Flush
    /\ UNCHANGED <<arith, tty, term_width, term_height, bounds>>
    /\ UNCHANGED <<zoom_args, convVars, pixelVars>>

\* main.rs:190, 192
OtherEvent ==
    /\ \E e \in OtherEvents : Read(e)
    /\ Flush
    /\ UNCHANGED <<arith, tty, term_width, term_height, bounds, frame, renders>>
    /\ UNCHANGED <<zoom_args, convVars, pixelVars>>

TermSizes == (1..MaxTermWidth) \X (1..MaxTermHeight)

InitLoop ==
    /\ arith = "ieee"
    /\ tty \in TermSizes \cup {NoTty}
    /\ pending = MaxEvents
    /\ pc = "size"
    /\ panic = "none"
    /\ raw_mode = FALSE
    /\ term_width = 0
    /\ term_height = 0
    /\ bounds = InitialBounds
    /\ evt = NoEvent
    /\ frame = <<>>
    /\ renders = 0
    /\ ZoomIdle /\ ConvIdle /\ PixelIdle

NextLoop ==
    \/ TerminalSize
    \/ InitialDraw
    \/ IntoRawMode
    \/ ReadError
    \/ EndOfInput
    \/ Quit
    \/ KeyEvent
    \/ MousePress
    \/ OtherEvent

SpecLoop == InitLoop /\ [][NextLoop]_vars

(***************************************************************************)
(* The same program when the user only clicks: a 1x1 terminal and          *)
(* MaxClicks pointer presses.                                              *)
(***************************************************************************)
InitClicks ==
    /\ arith = "ieee"
    /\ tty = <<1, 1>>
    /\ pending = MaxClicks
    /\ pc = "size"
    /\ panic = "none"
    /\ raw_mode = FALSE
    /\ term_width = 0
    /\ term_height = 0
    /\ bounds = InitialBounds
    /\ evt = NoEvent
    /\ frame = <<>>
    /\ renders = 0
    /\ ZoomIdle /\ ConvIdle /\ PixelIdle

NextClicks ==
    \/ TerminalSize
    \/ InitialDraw
    \/ IntoRawMode
    \/ MousePress
    \/ EndOfInput

SpecClicks == InitClicks /\ [][NextClicks]_vars

(***************************************************************************)
(* scale_bounds as a function (main.rs:146-161), in exact arithmetic:      *)
(* calls with any factor, anchor, terminal size and viewport, each on the  *)
(* viewport the call before returned.                                      *)
(***************************************************************************)
Factors == {Lit(1, 2), Lit(3, 2), Lit(2, 1), Lit(-1, 3)}

Viewports ==
    {InitialBounds}
    \cup {<<<<Lit(a, 1), Lit(a + MaxCoord + 1, 2)>>, <<Lit(-a, 2), Lit(MaxCoord + 1 - a, 1)>>>> :
            a \in -MaxCoord..MaxCoord}

InitZoom ==
    /\ arith = "exact"
    /\ pc = "zoom"
    /\ term_width \in 1..MaxTermWidth
    /\ term_height \in 1..MaxTermHeight
    /\ bounds \in Viewports
    /\ zoom_args = NoArgs
    /\ tty = NoTty /\ pending = 0 /\ panic = "none" /\ raw_mode = FALSE
    /\ evt = NoEvent /\ frame = <<>> /\ renders = 0
    /\ ConvIdle /\ PixelIdle

ScaleBounds ==
    /\ pc = "zoom"
    /\ Len(zoom_args) < MaxZooms
    /\ \E f \in Factors, term_x \in 0..term_width, term_y \in 0..term_height :
          /\ zoom_args' = Append(zoom_args, [f |-> f, term_x |-> term_x, term_y |-> term_y,
                                             old |-> bounds])
          /\ bounds' = scale_bounds(f, term_x, term_y, term_height, term_width, bounds)
    /\ UNCHANGED <<arith, envVars, pc, panic, raw_mode, term_width, term_height, evt, frame, renders>>
    /\ UNCHANGED <<convVars, pixelVars>>

NextZoom == ScaleBounds

SpecZoom == InitZoom /\ [][NextZoom]_vars

(***************************************************************************)
(* check_convergence (main.rs:91-109), one loop iteration per step.        *)
(* pc: "loop" at the head of the loop, "ret" after the return.             *)
(***************************************************************************)
max_iterations == 900
\* the cutoff of the usual escape radius 2
cutoff_radius2 == Lit(4, 1)
cutoff == Lit(10, 1)

\* an input that leaves the disc of squared radius 10 late
SlowEscape == [re |-> FRound(0, 1354, -12), im |-> FRound(0, 1622, -12)]

ConvInputs ==
    {from(<<Lit(a, 2), Lit(b, 2)>>) : a, b \in (-2 * MaxCoord)..(2 * MaxCoord)}
    \cup {SlowEscape}

InitConv ==
    /\ arith = "ieee"
    /\ pc = "loop"
    /\ c \in ConvInputs
    /\ z = [im |-> Zero, re |-> Zero]
    /\ i = 0
    /\ ret = None
    /\ bounds = <<>>
    /\ LoopIdle /\ ZoomIdle /\ PixelIdle

\* main.rs:98-100
Escape ==
    /\ pc = "loop"
    /\ Gt(norm(z), cutoff)
    /\ ret' = Some(i)
    /\ pc' = "ret"
    /\ UNCHANGED <<c, z, i>>
    /\ UNCHANGED <<arith, envVars, panic, raw_mode, term_width, term_height, bounds, evt, frame, renders>>
    /\ UNCHANGED <<zoom_args, pixelVars>>

\* main.rs:102-104
GiveUp ==
    /\ pc = "loop"
    /\ ~Gt(norm(z), cutoff)
    /\ i > max_iterations
    /\ ret' = None
    /\ pc' = "ret"
    /\ UNCHANGED <<c, z, i>>
    /\ UNCHANGED <<arith, envVars, panic, raw_mode, term_width, term_height, bounds, evt, frame, renders>>
    /\ UNCHANGED <<zoom_args, pixelVars>>

\* main.rs:106-107
Iterate ==
    /\ pc = "loop"
    /\ ~Gt(norm(z), cutoff)
    /\ ~(i > max_iterations)
    /\ z' = add(mul(z, z), c)
    /\ i' = i + 1
    /\ UNCHANGED <<c, ret, pc>>
    /\ UNCHANGED <<arith, envVars, panic, raw_mode, term_width, term_height, bounds, evt, frame, renders>>
    /\ UNCHANGED <<zoom_args, pixelVars>>

NextConv == Escape \/ GiveUp \/ Iterate

SpecConv == InitConv /\ [][NextConv]_vars

(***************************************************************************)
(* The cell loop of draw_mandelbrot (main.rs:131-137) with any result of   *)
(* type Option<u16>.  pc: "eval" before a cell's result is computed,       *)
(* "push" before push_pixel.                                               *)
(***************************************************************************)
U16Max == 65535
Results == {None} \cup {Some(k) : k \in 0..U16Max}

InitPixel ==
    /\ arith = "ieee"
    /\ pc = "eval"
    /\ buffer = <<>>
    /\ convergence_result = None
    /\ bounds = <<>>
    /\ LoopIdle /\ ZoomIdle /\ ConvIdle

\* main.rs:134
Evaluate ==
    /\ pc = "eval"
    /\ Len(buffer) < MaxBuffer
    /\ convergence_result' \in Results
    /\ pc' = "push"
    /\ UNCHANGED buffer
    /\ UNCHANGED <<arith, envVars, panic, raw_mode, term_width, term_height, bounds, evt, frame, renders>>
    /\ UNCHANGED <<zoom_args, convVars>>

\* main.rs:135-136: the pixel is pushed and the cell's result goes out of scope
PushPixel ==
    /\ pc = "push"
    /\ buffer' = push_pixel(convergence_result, buffer)
    /\ pc' = "eval"
    /\ convergence_result' = None
    /\ UNCHANGED <<arith, envVars, panic, raw_mode, term_width, term_height, bounds, evt, frame, renders>>
    /\ UNCHANGED <<zoom_args, convVars>>

NextPixel == Evaluate \/ PushPixel

SpecPixel == InitPixel /\ [][NextPixel]_vars

(***************************************************************************)
(* Properties.                                                             *)
(***************************************************************************)
Width == bounds[1][2]
Height == bounds[2][2]
Shown(b) == <<term_width, term_height, b>>

\* the step reads an event from the input
Consumes == pending' = pending - 1
ArrowKeys == {"Right", "Left", "Down", "Up"}
IsArrow(e) == e.type = "Key" /\ e.key \in ArrowKeys
IsOtherKey(e) == e.type = "Key" /\ e.key = "Other"
IsQuit(e) == e.type = "Key" /\ e.key = "q"
IsPress(e) == e.type = "Press"
IsIgnored(e) == e.type \in {"Release", "Unsupported"}
\* the process panics in this step only on the flush after the event
OnlyFlushAborts == pc' = "aborted" => panic' = "flush"

LastZoom == zoom_args[Len(zoom_args)]

\* C1: zoom anchoring, in exact arithmetic. After new = scale_bounds(f, term_x,
\* term_y, term_height, term_width, old), for every factor f, anchor, terminal
\* size and viewport old, the anchor (term_x, term_y) maps under new to exactly
\* the plane point it maps to under old, and the extents of new are f times the
\* extents of old.
C1_ZoomAnchored ==
    zoom_args # NoArgs =>
        /\ convert_term_coords(LastZoom.term_x, LastZoom.term_y, term_width, term_height, bounds)
             = convert_term_coords(LastZoom.term_x, LastZoom.term_y, term_width, term_height,
                                   LastZoom.old)
        /\ Width = Mul(LastZoom.f, LastZoom.old[1][2])
        /\ Height = Mul(LastZoom.f, LastZoom.old[2][2])

\* a zoom by 1/2 about an anchor off the origin has moved the origin
C1_Zoomed ==
    /\ zoom_args # NoArgs
    /\ LastZoom.f = Lit(1, 2)
    /\ LastZoom.term_x > 0
    /\ LastZoom.term_y > 0
    /\ bounds[1][1] # LastZoom.old[1][1]
    /\ bounds[2][1] # LastZoom.old[2][1]

\* C2: in every state reached from the initial viewport by input events, the
\* width and the height of the viewport are strictly positive.
C2_ExtentPositive == Gt(Width, Zero) /\ Gt(Height, Zero)

\* C3: a pan leaves width and height as they are and moves exactly one of
\* x_min, y_min, by plus or minus a tenth of the corresponding extent; so after
\* any sequence of pans the extents are those before it.
C3_PanKeepsExtent ==
    [][(Consumes /\ IsArrow(evt')) =>
          /\ Width' = Width
          /\ Height' = Height
          /\ evt'.key = "Right" =>
                /\ bounds'[1][1] = Add(bounds[1][1], Mul(Width, Lit(1, 10)))
                /\ bounds'[2][1] = bounds[2][1]
          /\ evt'.key = "Left" =>
                /\ bounds'[1][1] = Sub(bounds[1][1], Mul(Width, Lit(1, 10)))
                /\ bounds'[2][1] = bounds[2][1]
          /\ evt'.key = "Down" =>
                /\ bounds'[2][1] = Add(bounds[2][1], Mul(Height, Lit(1, 10)))
                /\ bounds'[1][1] = bounds[1][1]
          /\ evt'.key = "Up" =>
                /\ bounds'[2][1] = Sub(bounds[2][1], Mul(Height, Lit(1, 10)))
                /\ bounds'[1][1] = bounds[1][1]
      ]_vars

\* the loop waits after a pan to the right that moved x_min
C3_Panned ==
    /\ pc = "wait"
    /\ evt = KeyEv("Right")
    /\ Gt(bounds[1][1], InitialBounds[1][1])
    /\ Width = InitialBounds[1][2]

C5_StartupAbortsBeforeRender ==
    (pc = "aborted" /\ panic \in {"terminal_size", "into_raw_mode"}) => renders = 0

\* C5 as amended: when terminal_size() fails the process has aborted before any
\* render; when into_raw_mode() fails it has aborted after the initial render,
\* the only one, and before any event is read.
C5_StartupAbort ==
    /\ panic = "terminal_size" => (pc = "aborted" /\ renders = 0 /\ frame = <<>>)
    /\ panic = "into_raw_mode" =>
          /\ pc = "aborted"
          /\ renders = 1
          /\ frame = Shown(InitialBounds)
          /\ evt = NoEvent
          /\ pending = MaxEvents

\* into_raw_mode() has failed
C5_RawModeFailed == pc = "aborted" /\ panic = "into_raw_mode"

\* C6: a returned Some(k) has k <= max_iterations.
C6_EscapeWithinMax == (pc = "ret" /\ ret.some) => ret.k <= max_iterations

PointTwoTwo == from(<<Lit(2, 1), Lit(2, 1)>>)

\* C7 as claimed: check_convergence(C{re: 2, im: 2}) returns Some(0).
C7_TwoTwoEscapesAt0 == (pc = "ret" /\ c = PointTwoTwo) => ret = Some(0)

\* C7 as amended: check_convergence(C{re: 2, im: 2}) returns Some(2).
C7_TwoTwoEscapesAt2 == (pc = "ret" /\ c = PointTwoTwo) => ret = Some(2)

\* check_convergence has returned for c = 2 + 2i
C7_TwoTwoReturned == pc = "ret" /\ c = PointTwoTwo

\* C8 as claimed: an event that is not the quit key, not an arrow key and not
\* a pointer press changes no viewport and causes no render.
C8_OtherEventsIgnored ==
    [][(Consumes /\ (IsOtherKey(evt') \/ IsIgnored(evt'))) =>
          /\ bounds' = bounds
          /\ renders' = renders
      ]_vars

\* C8 as amended: an event that is neither a key nor a pointer press changes no
\* viewport and causes no render; a key that is neither quit nor an arrow
\* changes no viewport and causes one render, of the viewport as it was.
C8_NonKeyIgnoredOtherKeyRedraws ==
    [][Consumes =>
          /\ IsIgnored(evt') => (bounds' = bounds /\ renders' = renders /\ frame' = frame)
          /\ IsOtherKey(evt') =>
                (bounds' = bounds /\ renders' = renders + 1 /\ frame' = Shown(bounds))
      ]_vars

\* the loop waits after a key that is neither quit nor an arrow, read first
C8_OtherKeyRedrawn ==
    /\ pc = "wait"
    /\ IsOtherKey(evt)
    /\ pending = MaxEvents - 1
    /\ renders = 2

Bands ==
    {<<0, 100, " ">>, <<101, 200, ".">>, <<201, 300, ":">>, <<301, 400, "-">>,
     <<401, 500, "=">>, <<501, 600, "+">>, <<601, 700, "*">>, <<701, 800, "#">>,
     <<801, U16Max, "%">>}
Shade(r) ==
    IF ~r.some THEN "@"
    ELSE (CHOOSE band \in Bands : r.k \in band[1]..band[2])[3]

\* C9: push_pixel appends exactly one symbol, the one of the table: '@' for
\* None, and for Some(k) the symbol of the band k lies in; every 16-bit k lies
\* in exactly one band.
C9_ShadingTable ==
    /\ [](convergence_result.some =>
            Cardinality({band \in Bands : convergence_result.k \in band[1]..band[2]}) = 1)
    /\ [][pc = "push" => buffer' = Append(buffer, Shade(convergence_result))]_vars

\* a cell that escaped at iteration 800 has been pushed
C9_Pushed == pc = "eval" /\ buffer = <<"#">>

\* C10: every pan and every zoom is followed, before the next event is read,
\* by exactly one render, of the viewport it produced; whenever the loop waits
\* for an event the frame on the screen is the one of the current viewport;
\* the quit key ends the loop without a render, and after it no event is read
\* and nothing is rendered.
C10_RenderFollowsTransform ==
    /\ [](pc = "wait" => (renders >= 1 /\ frame = Shown(bounds)))
    /\ [][(Consumes /\ (IsArrow(evt') \/ IsPress(evt'))) =>
             (renders' = renders + 1 /\ frame' = Shown(bounds'))]_vars
    /\ [][(Consumes /\ IsQuit(evt')) => (pc' = "done" /\ renders' = renders /\ frame' = frame)]_vars
    /\ [][pc = "done" => (pending' = pending /\ renders' = renders /\ frame' = frame)]_vars

\* the loop waits after two transforms, the frame showing a viewport that is
\* not the initial one
C10_TwiceTransformed ==
    /\ pc = "wait"
    /\ pending = MaxEvents - 2
    /\ renders = 3
    /\ frame = Shown(bounds)
    /\ bounds # InitialBounds
====
